---- MODULE Spec2Model ----
(***************************************************************************)
(* EdgeAudit frontend: the data-loading hooks (useAudits, useSummary,      *)
(* useAuditDetail), the dashboard's filter/sort/pagination controller and  *)
(* the submission wizard (SubmitAuditPage), as one state machine.          *)
(*                                                                         *)
(* The router of App.tsx renders exactly one page, so `host` names the     *)
(* component that owns the hooks of a run: DashboardPage, DetailPage,      *)
(* SubmitAuditPage, or "useAudits" for a consumer that drives the          *)
(* collection hook directly (any params, and the exported refetch()).      *)
(* A React state setter is modelled as the assignment it requests; an      *)
(* effect runs in the step of the render that changed its dependencies.    *)
(***************************************************************************)
EXTENDS Integers, Sequences, FiniteSets, TLC

VARIABLES
    host,               \* the component the router mounted
    mounted,            \* TRUE until the host is unmounted
    nextId,             \* identity of the next request issued (ids grow monotonically)
    \* DashboardPage / FilterBar
    filterParams,       \* DashboardPage.filterParams, the params handed to useAudits
    paramsObject,       \* which object filterParams is: 0 the first, then 1 and 2 in turn
    searchTerm,         \* FilterBar.searchTerm
    debouncedSearch,    \* FilterBar.debouncedSearch = useDebounce(searchTerm, 500)
    timer,              \* ms left on useDebounce's pending timeout, 0 = none pending
    idle,               \* ms since searchTerm last changed (saturates at DebounceDelay)
    \* useAudits
    auditsData, auditsLoading, auditsError,
    auditsInflight,     \* getAuditsList calls not yet settled
    auditsEffectId,     \* the request made by the effect now in force
    \* useSummary
    summaryData, summaryLoading, summaryError,
    summaryInflight,    \* getAuditsSummary calls not yet settled
    \* useAuditDetail
    auditId,            \* DetailPage's route parameter
    detailData, detailLoading, detailError,
    detailInflight,     \* getAuditDetail calls not yet settled
    detailEffectId,     \* the request made by the effect now in force, 0 = none
    \* SubmitAuditPage
    mode, step, strategies, loadingStrategies, selectedStrategy, selectedAsset,
    error,
    catalogInflight,    \* getStrategies calls not yet settled
    loading, success,
    submissions,        \* handleSubmit calls suspended at one of their awaits
    navTimers,          \* pending setTimeout(navigate, 1500) callbacks, oldest first
    location,           \* the router's path, as its segments
    confirmedVia,       \* how the confirm step was last entered: "pick" or "skip"
    \* ApiService
    apiEndpoint,        \* the endpoint of the call awaiting its response
    apiResponse,        \* the last response: its ok flag and its body
    apiOutcome          \* what the call gave its caller: a value or a thrown error

dashVars    == <<filterParams, paramsObject, searchTerm, debouncedSearch, timer, idle>>
auditsState == <<auditsData, auditsLoading, auditsError>>
auditsVars  == <<auditsData, auditsLoading, auditsError, auditsInflight,
                 auditsEffectId>>
summaryState == <<summaryData, summaryLoading, summaryError>>
summaryVars == <<summaryData, summaryLoading, summaryError, summaryInflight>>
detailState == <<detailData, detailLoading, detailError>>
detailVars  == <<auditId, detailData, detailLoading, detailError, detailInflight,
                 detailEffectId>>
apiVars     == <<apiEndpoint, apiResponse, apiOutcome>>
submitVars  == <<loading, success, submissions, navTimers, location>>
wizardVars  == <<mode, step, strategies, loadingStrategies, selectedStrategy,
                 selectedAsset, error, catalogInflight, submitVars, confirmedVia>>
vars == <<host, mounted, nextId, dashVars, auditsVars, summaryVars, detailVars,
          wizardVars, apiVars>>

----------------------------------------------------------------------------
(* Bounds and input sets *)

\* Requests one run may issue in total.
MaxReq == 3

\* useState(null) / an absent value; a present value v is <<v>>.
Null == <<>>
Some(v) == <<v>>

\* Texts the operator may leave in the search box.
Texts == {"", "me", "mean"}

\* err.message of a rejected call (api.ts throws Error(detail || 'An error occurred')).
Reasons == {"An error occurred"}

CanIssue == nextId <= MaxReq

Min(a, b) == IF a <= b THEN a ELSE b

----------------------------------------------------------------------------
(* The remote service, as far as the client depends on it *)

\* Records the backing set holds for a name filter (substring match).
BackingCount(name) ==
    CASE name = ""     -> 45
      [] name = "me"   -> 25
      [] name = "mean" -> 5

\* A page of the collection: the echoed page and page_size and the total;
\* req names the response object (every call resolves to a fresh one).
AuditsListResponse(r) ==
    [req |-> r.id, page |-> r.params.page, page_size |-> r.params.page_size,
     total |-> BackingCount(r.params.strategy_name)]

\* audits.audits.length of a page
RecordCount(d) ==
    LET left == d.total - (d.page - 1) * d.page_size
    IN  IF left <= 0 THEN 0 ELSE Min(left, d.page_size)

Failure(r, msg) == [req |-> r.id, msg |-> msg]

----------------------------------------------------------------------------
(* useAudits *)

\* The cleanup an effect returns: `mounted = false` in that effect's closure.
CleanupUnguarded(S) == S
Cleanup(S) ==
    {IF r.origin = "effect" THEN [r EXCEPT !.mounted = FALSE] ELSE r : r \in S}

\* The effect of useAudits for params p: the previous effect's cleanup, then
\* fetchAudits() up to its await.
AuditsEffect(p) ==
    /\ CanIssue
    /\ auditsLoading' = TRUE
    /\ auditsInflight' = Cleanup(auditsInflight) \cup
            {[id |-> nextId, origin |-> "effect", params |-> p, mounted |-> TRUE]}
    /\ auditsEffectId' = nextId
    /\ nextId' = nextId + 1
    /\ UNCHANGED <<auditsData, auditsError>>

\* A render with params p whose effect depended on the params object itself
RenderAlwaysFetches(p) ==
    /\ filterParams' = p
    /\ paramsObject' = (paramsObject % 2) + 1
    /\ AuditsEffect(p)

\* A render of the consumer with params p: the effect runs only when one of
\* its five dependencies changed.
RenderWithParams(p) ==
    /\ filterParams' = p
    /\ paramsObject' = (paramsObject % 2) + 1
    /\ IF p # filterParams
         THEN AuditsEffect(p)
         ELSE UNCHANGED <<auditsVars, nextId>>

\* fetchAudits() after its await: try / catch / finally, each guarded by the
\* closure's mounted flag.
FetchAuditsSettledUnguarded(r, ok, msg) ==
    /\ auditsLoading' = FALSE
    /\ IF ok
         THEN auditsData' = Some(AuditsListResponse(r)) /\ auditsError' = Null
         ELSE auditsError' = Some(Failure(r, msg)) /\ UNCHANGED auditsData
FetchAuditsSettled(r, ok, msg) ==
    IF r.mounted
      THEN /\ auditsLoading' = FALSE
           /\ IF ok
                THEN auditsData' = Some(AuditsListResponse(r)) /\ auditsError' = Null
                ELSE auditsError' = Some(Failure(r, msg)) /\ UNCHANGED auditsData
      ELSE UNCHANGED auditsState

\* refetch()'s then / catch / finally: no mounted flag is consulted.
RefetchSettled(r, ok, msg) ==
    /\ auditsLoading' = FALSE
    /\ IF ok
         THEN auditsData' = Some(AuditsListResponse(r)) /\ auditsError' = Null
         ELSE auditsError' = Some(Failure(r, msg)) /\ UNCHANGED auditsData

\* A getAuditsList call settles.
AuditsSettled(r, ok, msg) ==
    /\ r \in auditsInflight
    /\ auditsInflight' = auditsInflight \ {r}
    /\ IF r.origin = "effect"
         THEN FetchAuditsSettled(r, ok, msg)
         ELSE RefetchSettled(r, ok, msg)
    /\ UNCHANGED <<apiVars, host, mounted, nextId, auditsEffectId, dashVars, summaryVars,
                   detailVars, wizardVars>>

\* refetch(): setLoading(true) and a new call with the params of the render
\* the function was taken from.
Refetch ==
    /\ host = "useAudits" /\ mounted /\ CanIssue
    /\ auditsLoading' = TRUE
    /\ auditsInflight' = auditsInflight \cup
            {[id |-> nextId, origin |-> "refetch", params |-> filterParams,
              mounted |-> TRUE]}
    /\ nextId' = nextId + 1
    /\ UNCHANGED <<apiVars, host, mounted, dashVars, auditsData, auditsError,
                   auditsEffectId, summaryVars, detailVars, wizardVars>>

\* A consumer other than DashboardPage renders with new params.
SetParams(p) ==
    /\ host = "useAudits" /\ mounted
    /\ RenderWithParams(p)
    /\ UNCHANGED <<apiVars, host, mounted, searchTerm, debouncedSearch, timer, idle,
                   summaryVars, detailVars, wizardVars>>

----------------------------------------------------------------------------
(* DashboardPage and FilterBar *)

PageSize == 20
DebounceDelay == 500

\* The clock advances in fifths of the debounce delay.
Quantum == DebounceDelay \div 5

\* The <option> values of the sort select, as their '_'-separated words.
SortOptions ==
    { <<"submitted", "at", "desc">>, <<"submitted", "at", "asc">>,
      <<"edge", "score", "desc">>, <<"overfit", "probability", "asc">> }

\* val.substring(0, lastUnderscore) and val.substring(lastUnderscore + 1)
SplitLast(val) == <<SubSeq(val, 1, Len(val) - 1), val[Len(val)]>>

InitialFilterParams ==
    [page |-> 1, page_size |-> PageSize, strategy_name |-> "",
     sort_by |-> <<"submitted", "at">>, sort_order |-> "desc"]

\* Params a direct consumer of useAudits may pass.
CallerQueries ==
    {[InitialFilterParams EXCEPT !.page = pg, !.strategy_name = nm] :
        pg \in 1..2, nm \in {"", "mean"}}

\* handleFilterChange: setFilterParams(prev => ({...prev, strategy_name, page: 1}))
FilterChangedKeepPage(prev, strategyName) ==
    [prev EXCEPT !.strategy_name = strategyName]
FilterChanged(prev, strategyName) ==
    [prev EXCEPT !.strategy_name = strategyName, !.page = 1]

\* handleSortChange: setFilterParams(prev => ({...prev, sort_by, sort_order, page: 1}))
SortChanged(prev, sortBy, sortOrder) ==
    [prev EXCEPT !.sort_by = sortBy, !.sort_order = sortOrder, !.page = 1]

\* The value FilterBar's effect hands to onFilterChange.
FilterSourceRaw(term, debounced) == term
FilterSource(term, debounced) == debounced

\* FilterBar's effect after a render with the given searchTerm and debounced
\* value: it runs when the value it depends on changed, and calls
\* onFilterChange = handleFilterChange.
FilterBarEffect(term, debounced) ==
    IF FilterSource(term, debounced) # FilterSource(searchTerm, debouncedSearch)
      THEN RenderWithParams(FilterChanged(filterParams, FilterSource(term, debounced)))
      ELSE UNCHANGED <<filterParams, paramsObject, auditsVars, nextId>>

\* useDebounce(value, delay): its effect on [value, delay] clears the pending
\* timeout and starts one of `delay` ms; when the timeout expires the
\* debounced value becomes the value.
useDebounceRestart == timer' = DebounceDelay
useDebounceExpires == timer = Quantum

\* FilterBar's effect runs when FilterBar mounts and calls onFilterChange
\* with the debounced value of that render: setFilterParams replaces the
\* first filterParams object, and DashboardPage renders again.
FilterBarMounted ==
    /\ host = "DashboardPage" /\ mounted
    /\ paramsObject = 0
    /\ RenderWithParams(FilterChanged(filterParams, FilterSource(searchTerm, debouncedSearch)))
    /\ UNCHANGED <<apiVars, host, mounted, searchTerm, debouncedSearch, timer, idle,
                   summaryVars, detailVars, wizardVars>>

\* onChange of the search box: setSearchTerm, and the effects of the render.
TypeSearch(text) ==
    /\ host = "DashboardPage" /\ mounted
    /\ text \in Texts /\ text # searchTerm
    /\ searchTerm' = text
    /\ useDebounceRestart
    /\ idle' = 0
    /\ FilterBarEffect(text, debouncedSearch)
    /\ UNCHANGED <<apiVars, host, mounted, debouncedSearch, summaryVars, detailVars,
                   wizardVars>>

\* Quantum ms pass. A timeout that expires sets the debounced value.
Tick ==
    /\ host = "DashboardPage" /\ mounted
    /\ idle' = Min(idle + Quantum, DebounceDelay)
    /\ IF useDebounceExpires
         THEN /\ timer' = 0
              /\ debouncedSearch' = searchTerm
              /\ FilterBarEffect(searchTerm, searchTerm)
         ELSE /\ timer' = IF timer = 0 THEN 0 ELSE timer - Quantum
              /\ UNCHANGED <<debouncedSearch, filterParams, paramsObject, auditsVars, nextId>>
    /\ UNCHANGED <<apiVars, host, mounted, searchTerm, summaryVars, detailVars, wizardVars>>

\* onChange of the sort select.
handleSortChange(val) ==
    /\ host = "DashboardPage" /\ mounted
    /\ val \in SortOptions
    /\ SplitLast(val) # <<filterParams.sort_by, filterParams.sort_order>>
    /\ RenderWithParams(SortChanged(filterParams, SplitLast(val)[1], SplitLast(val)[2]))
    /\ UNCHANGED <<apiVars, host, mounted, searchTerm, debouncedSearch, timer, idle,
                   summaryVars, detailVars, wizardVars>>

\* The table and its pagination are rendered only for a loaded, non-empty page.
PaginationShown ==
    /\ host = "DashboardPage" /\ mounted
    /\ ~auditsLoading /\ auditsError = Null
    /\ auditsData # Null /\ RecordCount(auditsData[1]) > 0

\* The Previous button, were it never disabled
PreviousPageNeverDisabled ==
    /\ PaginationShown
    /\ RenderWithParams([filterParams EXCEPT !.page = @ - 1])
    /\ UNCHANGED <<apiVars, host, mounted, searchTerm, debouncedSearch, timer, idle,
                   summaryVars, detailVars, wizardVars>>

PreviousPage ==
    /\ PaginationShown
    /\ auditsData[1].page # 1
    /\ RenderWithParams([filterParams EXCEPT !.page = @ - 1])
    /\ UNCHANGED <<apiVars, host, mounted, searchTerm, debouncedSearch, timer, idle,
                   summaryVars, detailVars, wizardVars>>

NextPage ==
    /\ PaginationShown
    /\ ~(auditsData[1].page * auditsData[1].page_size >= auditsData[1].total)
    /\ RenderWithParams([filterParams EXCEPT !.page = @ + 1])
    /\ UNCHANGED <<apiVars, host, mounted, searchTerm, debouncedSearch, timer, idle,
                   summaryVars, detailVars, wizardVars>>

----------------------------------------------------------------------------
(* useSummary *)

\* fetchSummary() after its await.
FetchSummarySettled(r, ok, msg) ==
    IF r.mounted
      THEN /\ summaryLoading' = FALSE
           /\ IF ok
                THEN summaryData' = Some([req |-> r.id]) /\ summaryError' = Null
                ELSE summaryError' = Some(Failure(r, msg)) /\ UNCHANGED summaryData
      ELSE UNCHANGED summaryState

SummarySettled(r, ok, msg) ==
    /\ r \in summaryInflight
    /\ summaryInflight' = summaryInflight \ {r}
    /\ FetchSummarySettled(r, ok, msg)
    /\ UNCHANGED <<apiVars, host, mounted, nextId, dashVars, auditsVars, detailVars,
                   wizardVars>>

----------------------------------------------------------------------------
(* useAuditDetail and DetailPage *)

\* Identifiers a route can carry; useParams gives undefined without one.
Undefined == "undefined-value"
AuditIds == {"A", "B"}
RouteIds == AuditIds \cup {"", Undefined}

\* !auditId
Falsy(id) == id \in {"", Undefined}

\* The effect of useAuditDetail for identifier id: the previous effect's
\* cleanup, then either the short circuit or fetchAudit() up to its await.
DetailEffect(id) ==
    IF Falsy(id)
      THEN /\ detailLoading' = FALSE
           /\ detailInflight' = Cleanup(detailInflight)
           /\ detailEffectId' = 0
           /\ UNCHANGED <<detailData, detailError, nextId>>
      ELSE /\ CanIssue
           /\ detailLoading' = TRUE
           /\ detailInflight' = Cleanup(detailInflight) \cup
                  {[id |-> nextId, origin |-> "effect", params |-> id,
                    mounted |-> TRUE]}
           /\ detailEffectId' = nextId
           /\ nextId' = nextId + 1
           /\ UNCHANGED <<detailData, detailError>>

\* fetchAudit() after its await.
FetchAuditSettledUnguarded(r, ok, msg) ==
    /\ detailLoading' = FALSE
    /\ IF ok
         THEN detailData' = Some([req |-> r.id, audit_id |-> r.params])
              /\ detailError' = Null
         ELSE detailError' = Some(Failure(r, msg)) /\ UNCHANGED detailData
FetchAuditSettled(r, ok, msg) ==
    IF r.mounted
      THEN /\ detailLoading' = FALSE
           /\ IF ok
                THEN detailData' = Some([req |-> r.id, audit_id |-> r.params])
                     /\ detailError' = Null
                ELSE detailError' = Some(Failure(r, msg)) /\ UNCHANGED detailData
      ELSE UNCHANGED detailState

DetailSettled(r, ok, msg) ==
    /\ r \in detailInflight
    /\ detailInflight' = detailInflight \ {r}
    /\ FetchAuditSettled(r, ok, msg)
    /\ UNCHANGED <<apiVars, host, mounted, nextId, auditId, detailEffectId, dashVars,
                   auditsVars, summaryVars, wizardVars>>

\* The route parameter changes while DetailPage stays mounted.
ChangeAuditId(id) ==
    /\ host = "DetailPage" /\ mounted
    /\ id \in RouteIds /\ id # auditId
    /\ auditId' = id
    /\ DetailEffect(id)
    /\ UNCHANGED <<apiVars, host, mounted, dashVars, auditsVars, summaryVars, wizardVars>>

\* What DetailPage returns: the spinner while loading, else the error's text
\* in an ErrorMessage, else "Audit not found" when there is no record, else
\* the record's page.
DetailView ==
    CASE detailLoading       -> <<"Spinner">>
      [] detailError # Null  -> <<"ErrorMessage", detailError[1].msg>>
      [] detailData = Null   -> <<"ErrorMessage", "Audit not found">>
      [] OTHER               -> <<"Audit", detailData[1].audit_id>>

----------------------------------------------------------------------------
(* Teardown *)

\* The host is unmounted: every effect's cleanup runs (the hooks' mounted
\* flags, useDebounce's clearTimeout).
Unmount ==
    /\ host # "ApiService" /\ mounted
    /\ mounted' = FALSE
    /\ auditsInflight' = Cleanup(auditsInflight)
    /\ summaryInflight' = Cleanup(summaryInflight)
    /\ detailInflight' = Cleanup(detailInflight)
    /\ timer' = 0
    \* the header's links lead to "/"
    /\ location' = IF host = "SubmitAuditPage" THEN <<>> ELSE location
    /\ UNCHANGED <<apiVars, host, nextId, filterParams, paramsObject, searchTerm, debouncedSearch, idle,
                   auditsState, auditsEffectId, summaryState, auditId, detailState,
                   detailEffectId, mode, step, strategies, loadingStrategies,
                   selectedStrategy, selectedAsset, error, catalogInflight,
                   loading, success, submissions, navTimers,
                   confirmedVia>>

----------------------------------------------------------------------------
(* SubmitAuditPage: the submission wizard *)

Alpha == [name |-> "alpha", assets |-> <<"AAPL", "MSFT">>]
Beta  == [name |-> "beta", assets |-> <<"SPY">>]

\* What GET /strategies may answer (response.strategies || []).
Catalogs == { <<>>, <<Alpha>>, <<Alpha, Beta>> }

ManualNotImplemented ==
    "Manual entry mode is not yet implemented. Please use Quick Select."

\* useState<Mode | null>(null)
NoMode == "null"

Range(seq) == {seq[i] : i \in 1..Len(seq)}

\* The guard of the effect on [mode].
ShouldLoadStrategies(m, list) == m = "quick-select" /\ list = <<>>

\* The effect on [mode] after a render in which mode became m: it runs when
\* mode changed, and calls loadStrategies() (up to its await) under its guard.
ModeEffect(m) ==
    IF m # mode /\ ShouldLoadStrategies(m, strategies)
      THEN /\ CanIssue
           /\ loadingStrategies' = TRUE
           /\ error' = Null
           /\ catalogInflight' = catalogInflight \cup {nextId}
           /\ nextId' = nextId + 1
      ELSE UNCHANGED <<loadingStrategies, error, catalogInflight, nextId>>

\* handleModeSelect('quick-select')
SelectQuickSelect ==
    /\ host = "SubmitAuditPage" /\ mounted
    /\ step = "mode"
    /\ mode' = "quick-select"
    /\ ModeEffect("quick-select")
    /\ UNCHANGED <<apiVars, host, mounted, step, strategies, selectedStrategy, selectedAsset,
                   submitVars, confirmedVia,
                   dashVars, auditsVars, summaryVars, detailVars>>

\* handleModeSelect('manual'): setMode('manual'), setError(...), setMode(null)
\* are one batch; the effect sees mode = null.
SelectManual ==
    /\ host = "SubmitAuditPage" /\ mounted
    /\ step = "mode"
    /\ mode' = NoMode
    /\ error' = Some(ManualNotImplemented)
    /\ UNCHANGED <<apiVars, host, mounted, nextId, step, strategies, loadingStrategies,
                   selectedStrategy, selectedAsset, catalogInflight,
                   submitVars, confirmedVia,
                   dashVars, auditsVars, summaryVars, detailVars>>

\* loadStrategies() after its await: try / catch / finally.
LoadStrategiesSettled(ok, list, msg) ==
    /\ loadingStrategies' = FALSE
    /\ IF ok
         THEN /\ strategies' = list
              /\ step' = "strategy"
              /\ UNCHANGED <<error, mode>>
         ELSE /\ error' = Some(msg)
              /\ mode' = NoMode
              /\ step' = "mode"
              /\ UNCHANGED strategies

\* A getStrategies call settles.
CatalogSettled(id, ok, list, msg) ==
    /\ id \in catalogInflight
    /\ catalogInflight' = catalogInflight \ {id}
    /\ LoadStrategiesSettled(ok, list, msg)
    /\ UNCHANGED <<apiVars, host, mounted, nextId, selectedStrategy, selectedAsset,
                   submitVars, confirmedVia,
                   dashVars, auditsVars, summaryVars, detailVars>>

handleStrategySelect(strategy) ==
    /\ host = "SubmitAuditPage" /\ mounted
    /\ step = "strategy" /\ ~loadingStrategies
    /\ strategy \in Range(strategies)
    /\ selectedStrategy' = Some(strategy)
    /\ step' = "asset"
    /\ UNCHANGED <<apiVars, host, mounted, nextId, mode, strategies, loadingStrategies,
                   selectedAsset, error, catalogInflight,
                   submitVars, confirmedVia,
                   dashVars, auditsVars, summaryVars, detailVars>>

handleAssetSelect(asset) ==
    /\ host = "SubmitAuditPage" /\ mounted
    /\ step = "asset" /\ selectedStrategy # Null
    /\ asset \in Range(selectedStrategy[1].assets)
    /\ selectedAsset' = asset
    /\ step' = "confirm"
    /\ confirmedVia' = "pick"
    /\ UNCHANGED <<apiVars, host, mounted, nextId, mode, strategies, loadingStrategies,
                   selectedStrategy, error, catalogInflight,
                   submitVars,
                   dashVars, auditsVars, summaryVars, detailVars>>

\* "Skip asset selection (audit entire strategy)"
SkipAsset ==
    /\ host = "SubmitAuditPage" /\ mounted
    /\ step = "asset" /\ selectedStrategy # Null
    /\ selectedAsset' = ""
    /\ step' = "confirm"
    /\ confirmedVia' = "skip"
    /\ UNCHANGED <<apiVars, host, mounted, nextId, mode, strategies, loadingStrategies,
                   selectedStrategy, error, catalogInflight,
                   submitVars,
                   dashVars, auditsVars, summaryVars, detailVars>>

\* handleBack, were it to drop every selection when it leaves the confirm step
handleBackClearsSelections ==
    /\ host = "SubmitAuditPage" /\ mounted
    /\ \/ /\ step = "confirm" /\ selectedStrategy # Null
          /\ step' = "asset"
          /\ selectedAsset' = ""
          /\ selectedStrategy' = Null
          /\ UNCHANGED mode
       \/ /\ step = "asset" /\ selectedStrategy # Null
          /\ step' = "strategy"
          /\ selectedStrategy' = Null
          /\ UNCHANGED <<selectedAsset, mode>>
       \/ /\ step = "strategy"
          /\ step' = "mode"
          /\ mode' = NoMode
          /\ UNCHANGED <<selectedStrategy, selectedAsset>>
    /\ UNCHANGED <<apiVars, host, mounted, nextId, strategies, loadingStrategies, error,
                   catalogInflight, submitVars, confirmedVia,
                   dashVars, auditsVars, summaryVars, detailVars>>

\* The Back button is rendered in the strategy panel, and in the asset and
\* confirm panels when a strategy is selected.
handleBack ==
    /\ host = "SubmitAuditPage" /\ mounted
    /\ \/ /\ step = "confirm" /\ selectedStrategy # Null
          /\ step' = "asset"
          /\ selectedAsset' = ""
          /\ UNCHANGED <<selectedStrategy, mode>>
       \/ /\ step = "asset" /\ selectedStrategy # Null
          /\ step' = "strategy"
          /\ selectedStrategy' = Null
          /\ UNCHANGED <<selectedAsset, mode>>
       \/ /\ step = "strategy"
          /\ step' = "mode"
          /\ mode' = NoMode
          /\ UNCHANGED <<selectedStrategy, selectedAsset>>
    /\ UNCHANGED <<apiVars, host, mounted, nextId, strategies, loadingStrategies, error,
                   catalogInflight, submitVars, confirmedVia,
                   dashVars, auditsVars, summaryVars, detailVars>>

----------------------------------------------------------------------------
(* SubmitAuditPage: handleSubmit, its two awaits, and the delayed navigate *)

NavigateDelay == 1500

SubmitReasons == {"asset not in universe"}

\* What GET /strategies/{name} can answer for a name: the record behind
\* the catalog entry, as it is now or after the remote side changed it.
FullRecords(name) ==
    IF name = "alpha"
    THEN { [name |-> "alpha", assets |-> <<"AAPL", "MSFT">>, raw_returns |-> "series"],
           [name |-> "alpha", assets |-> <<"MSFT">>, raw_returns |-> "series"] }
    ELSE { [name |-> "beta", assets |-> <<"SPY">>, raw_returns |-> "series"] }

\* selectedAsset, were the empty qualifier sent as it is
AsIs(asset) == asset

\* selectedAsset || undefined
OrUndefined(asset) == IF asset = "" THEN Undefined ELSE asset

\* A payload of the template's name and the qualifier only
NameAndQualifier(strategyData, asset) ==
    ("selected_asset" :> OrUndefined(asset)) @@ [name |-> strategyData.name]

\* { ...strategyData, selected_asset: selectedAsset || undefined }
BuildPayload(strategyData, asset) ==
    ("selected_asset" :> OrUndefined(asset)) @@ strategyData

\* JSON.stringify leaves out a key whose value is undefined; of the
\* payload's keys only selected_asset can be.
JSONstringify(payload) ==
    IF payload["selected_asset"] = Undefined
    THEN [k \in DOMAIN payload \ {"selected_asset"} |-> payload[k]]
    ELSE payload

\* a Run Audit button that is never disabled
AlwaysEnabled == TRUE

\* disabled={loading} on the Run Audit button
RunAuditEnabled == ~loading

handleSubmit ==
    /\ host = "SubmitAuditPage" /\ mounted
    /\ step = "confirm" /\ selectedStrategy # Null
    /\ RunAuditEnabled
    /\ CanIssue
    /\ nextId' = nextId + 1
    /\ loading' = TRUE
    /\ error' = Null
    /\ success' = Null
    /\ submissions' = submissions \cup
          { [id |-> nextId, phase |-> "template",
             name |-> selectedStrategy[1].name, asset |-> selectedAsset,
             via |-> confirmedVia, body |-> Null] }
    /\ UNCHANGED <<apiVars, host, mounted, mode, step, strategies, loadingStrategies,
                   selectedStrategy, selectedAsset, catalogInflight, navTimers,
                   location, confirmedVia,
                   dashVars, auditsVars, summaryVars, detailVars>>

\* catch + finally of handleSubmit
SubmitFailed(s, msg) ==
    /\ error' = Some(msg)
    /\ loading' = FALSE
    /\ submissions' = submissions \ {s}
    /\ UNCHANGED <<success, navTimers>>

\* await apiService.getStrategyByName(selectedStrategy.name) settles
TemplateSettled(s, ok, strategyData, msg) ==
    /\ host = "SubmitAuditPage"
    /\ s \in submissions /\ s.phase = "template"
    /\ IF ok
       THEN /\ strategyData \in FullRecords(s.name)
            /\ CanIssue
            /\ nextId' = nextId + 1
            /\ submissions' = (submissions \ {s}) \cup
                  { [s EXCEPT !.id = nextId, !.phase = "submit",
                              !.body = Some(JSONstringify(BuildPayload(strategyData, s.asset)))] }
            /\ UNCHANGED <<error, loading, success, navTimers>>
       ELSE SubmitFailed(s, msg) /\ UNCHANGED nextId
    /\ UNCHANGED <<apiVars, host, mounted, mode, step, strategies, loadingStrategies,
                   selectedStrategy, selectedAsset, catalogInflight,
                   location, confirmedVia,
                   dashVars, auditsVars, summaryVars, detailVars>>

\* await apiService.submitAudit(payload) settles
SubmitSettled(s, ok, audit_id, msg) ==
    /\ host = "SubmitAuditPage"
    /\ s \in submissions /\ s.phase = "submit"
    /\ IF ok
       THEN /\ success' = Some(audit_id)
            /\ navTimers' = Append(navTimers, [audit_id |-> audit_id, delay |-> NavigateDelay])
            /\ loading' = FALSE
            /\ submissions' = submissions \ {s}
            /\ UNCHANGED error
       ELSE SubmitFailed(s, msg)
    /\ UNCHANGED <<apiVars, host, mounted, nextId, mode, step, strategies, loadingStrategies,
                   selectedStrategy, selectedAsset, catalogInflight,
                   location, confirmedVia,
                   dashVars, auditsVars, summaryVars, detailVars>>

\* The due timeout, were it to navigate to the dashboard
NavigateHome ==
    /\ host = "SubmitAuditPage"
    /\ navTimers # <<>>
    /\ location' = <<>>
    /\ mounted' = FALSE
    /\ navTimers' = Tail(navTimers)
    /\ UNCHANGED <<apiVars, host, nextId, mode, step, strategies, loadingStrategies,
                   selectedStrategy, selectedAsset, error, catalogInflight,
                   loading, success, submissions, confirmedVia,
                   dashVars, auditsVars, summaryVars, detailVars>>

\* The oldest pending timeout is due and runs
\* navigate(`/audit/${result.audit_id}`), whether or not the page is still
\* mounted. All timeouts have the same delay, so they run in the order they
\* were set.
NavigateDue ==
    /\ host = "SubmitAuditPage"
    /\ navTimers # <<>>
    /\ location' = <<"audit", Head(navTimers).audit_id>>
    /\ mounted' = FALSE
    /\ navTimers' = Tail(navTimers)
    /\ UNCHANGED <<apiVars, host, nextId, mode, step, strategies, loadingStrategies,
                   selectedStrategy, selectedAsset, error, catalogInflight,
                   loading, success, submissions, confirmedVia,
                   dashVars, auditsVars, summaryVars, detailVars>>

\* the Cancel button of the confirm panel: navigate('/'), disabled={loading}
Cancel ==
    /\ host = "SubmitAuditPage" /\ mounted
    /\ step = "confirm" /\ selectedStrategy # Null
    /\ ~loading
    /\ location' = <<>>
    /\ mounted' = FALSE
    /\ UNCHANGED <<apiVars, host, nextId, mode, step, strategies, loadingStrategies,
                   selectedStrategy, selectedAsset, error, catalogInflight,
                   loading, success, submissions, navTimers, confirmedVia,
                   dashVars, auditsVars, summaryVars, detailVars>>

----------------------------------------------------------------------------
(* services/api.ts: ApiService *)

\* A response body: text that response.json() cannot parse, or text that
\* parses to null or to an object with or without a detail.
Details == {Undefined, "", "Audit not found"}
Bodies ==
    {[parses |-> FALSE]} \cup
    {[parses |-> TRUE, json |-> [t |-> "null"]]} \cup
    {[parses |-> TRUE, json |-> [t |-> "object", detail |-> d]] : d \in Details}

Fallback == "An error occurred"

Returned(value) == [thrown |-> FALSE, value |-> value]
Thrown(class, message) == [thrown |-> TRUE, class |-> class, message |-> message]

\* error.detail || 'An error occurred'
DetailOrFallback(detail) == IF detail \in {Undefined, ""} THEN Fallback ELSE detail

\* ApiService.fetch once the response is there. response.json() rejects with
\* a SyntaxError on text it cannot parse; reading .detail of null throws a
\* TypeError.
ApiFetch(ok, body) ==
    IF ~ok
      THEN LET errorBody == IF body.parses THEN body.json
                                            ELSE [t |-> "object", detail |-> Fallback]
           IN  IF errorBody.t = "null"
                 THEN Thrown("TypeError", "Cannot read properties of null (reading 'detail')")
                 ELSE Thrown("Error", DetailOrFallback(errorBody.detail))
      ELSE IF body.parses
             THEN Returned(body.json)
             ELSE Thrown("SyntaxError", "Unexpected end of JSON input")

\* QueryParams objects: their own keys in insertion order, each with a value
\* or undefined.
ParamKeys == <<"page", "page_size", "strategy_name", "sort_by", "sort_order">>
Number(n) == [t |-> "number", v |-> n]
Text(str) == [t |-> "string", v |-> str]
Undef == [t |-> "undefined"]
SampleValue(key) ==
    CASE key = "page"          -> Number(2)
      [] key = "page_size"     -> Number(20)
      [] key = "strategy_name" -> Text("")
      [] key = "sort_by"       -> Text("edge_score")
      [] key = "sort_order"    -> Text("asc")

\* For each key: "absent", "undefined" (present, value undefined) or "defined".
ParamShapes == [1..Len(ParamKeys) -> {"absent", "undefined", "defined"}]

RECURSIVE EntriesFrom(_, _)
EntriesFrom(shape, i) ==
    IF i > Len(ParamKeys) THEN <<>>
    ELSE (CASE shape[i] = "absent"    -> <<>>
            [] shape[i] = "undefined" -> << <<ParamKeys[i], Undef>> >>
            [] shape[i] = "defined"   -> << <<ParamKeys[i], SampleValue(ParamKeys[i])>> >>)
         \o EntriesFrom(shape, i + 1)

\* Object.entries(params)
ObjectEntries(shape) == EntriesFrom(shape, 1)

\* String(value)
String(value) == IF value.t = "number" THEN ToString(value.v) ELSE value.v

\* Every pair, were undefined values written out as well
RECURSIVE AllPairs(_)
AllPairs(entries) ==
    IF entries = <<>> THEN <<>>
    ELSE << <<Head(entries)[1],
              IF Head(entries)[2].t = "undefined" THEN "undefined"
              ELSE String(Head(entries)[2])>> >>
         \o AllPairs(Tail(entries))

\* .filter(([_, value]) => value !== undefined).map(([key, value]) => [key, String(value)])
RECURSIVE DefinedPairs(_)
DefinedPairs(entries) ==
    IF entries = <<>> THEN <<>>
    ELSE (IF Head(entries)[2].t # "undefined"
            THEN << <<Head(entries)[1], String(Head(entries)[2])>> >>
            ELSE <<>>)
         \o DefinedPairs(Tail(entries))

\* new URLSearchParams(pairs).toString(): key=value joined by &, as tokens
\* (none of the sample values needs percent-encoding)
RECURSIVE URLSearchParamsToString(_)
URLSearchParamsToString(pairs) ==
    IF pairs = <<>> THEN <<>>
    ELSE <<Head(pairs)[1], "=", Head(pairs)[2]>>
         \o (IF Len(pairs) > 1 THEN <<"&">> ELSE <<>>)
         \o URLSearchParamsToString(Tail(pairs))

\* the endpoint getAuditsList requests
AuditsEndpoint(entries) ==
    LET queryString == URLSearchParamsToString(DefinedPairs(entries))
    IN  IF queryString # <<>> THEN <<"/audits", "?">> \o queryString ELSE <<"/audits">>

\* apiService.getAuditsList(params) up to the await of fetch. The service
\* keeps no state between calls, so one call is followed per run.
getAuditsList(shape) ==
    /\ host = "ApiService" /\ apiEndpoint = Null
    /\ apiEndpoint' = Some([op |-> "getAuditsList", params |-> ObjectEntries(shape),
                            endpoint |-> AuditsEndpoint(ObjectEntries(shape))])
    /\ apiOutcome' = Null
    /\ UNCHANGED <<apiResponse, host, mounted, nextId, dashVars, auditsVars,
                   summaryVars, detailVars, wizardVars>>

\* getAuditsSummary(), getAuditDetail(auditId), submitAudit(payload) up to
\* the await of fetch
OtherOperations ==
    {[op |-> "getAuditsSummary", endpoint |-> <<"/audits/summary">>],
     [op |-> "submitAudit", endpoint |-> <<"/audit">>]} \cup
    {[op |-> "getAuditDetail", endpoint |-> <<"/audit/", id>>] : id \in AuditIds}
CallOperation(call) ==
    /\ host = "ApiService" /\ apiEndpoint = Null
    /\ call \in OtherOperations
    /\ apiEndpoint' = Some(call)
    /\ apiOutcome' = Null
    /\ UNCHANGED <<apiResponse, host, mounted, nextId, dashVars, auditsVars,
                   summaryVars, detailVars, wizardVars>>

\* The response of the pending call arrives and fetch completes.
Respond(ok, body) ==
    /\ host = "ApiService"
    /\ apiEndpoint # Null /\ apiOutcome = Null
    /\ apiResponse' = Some([ok |-> ok, body |-> body])
    /\ apiOutcome' = Some(ApiFetch(ok, body))
    /\ UNCHANGED <<apiEndpoint, host, mounted, nextId, dashVars, auditsVars,
                   summaryVars, detailVars, wizardVars>>

----------------------------------------------------------------------------
(* The state after the first render and its effects *)

Hosts == {"DashboardPage", "useAudits", "DetailPage", "SubmitAuditPage", "ApiService"}

EffectRequest(id, p) ==
    [id |-> id, origin |-> "effect", params |-> p, mounted |-> TRUE]

Init ==
    /\ host \in Hosts
    /\ mounted = TRUE
    \* FilterBar: useDebounce's effect has scheduled its first timeout
    /\ filterParams = InitialFilterParams
    /\ paramsObject = 0
    /\ searchTerm = ""
    /\ debouncedSearch = ""
    /\ timer = IF host = "DashboardPage" THEN DebounceDelay ELSE 0
    /\ idle = 0
    \* useAudits: loading starts true; the effect has called getAuditsList
    /\ auditsData = Null /\ auditsLoading = TRUE /\ auditsError = Null
    /\ auditsInflight = IF host \in {"DashboardPage", "useAudits"}
                          THEN {EffectRequest(1, InitialFilterParams)} ELSE {}
    /\ auditsEffectId = IF host \in {"DashboardPage", "useAudits"} THEN 1 ELSE 0
    \* useSummary
    /\ summaryData = Null /\ summaryLoading = TRUE /\ summaryError = Null
    /\ summaryInflight = IF host = "DashboardPage"
                           THEN {EffectRequest(0, "summary")} ELSE {}
    \* useAuditDetail: the effect short-circuits on a falsy identifier
    /\ auditId \in (IF host = "DetailPage" THEN RouteIds ELSE {Undefined})
    /\ detailData = Null /\ detailError = Null
    /\ detailLoading = ~(host = "DetailPage" /\ Falsy(auditId))
    /\ detailInflight = IF host = "DetailPage" /\ ~Falsy(auditId)
                          THEN {EffectRequest(1, auditId)} ELSE {}
    /\ detailEffectId = IF host = "DetailPage" /\ ~Falsy(auditId) THEN 1 ELSE 0
    /\ nextId = IF host = "SubmitAuditPage" \/ (host = "DetailPage" /\ Falsy(auditId))
                  THEN 1 ELSE 2
    \* SubmitAuditPage
    /\ mode = NoMode /\ step = "mode"
    /\ strategies = <<>> /\ loadingStrategies = FALSE
    /\ selectedStrategy = Null /\ selectedAsset = ""
    /\ error = Null
    /\ catalogInflight = {}
    /\ loading = FALSE /\ success = Null
    /\ submissions = {}
    /\ navTimers = <<>>
    /\ location = CASE host = "SubmitAuditPage" -> <<"submit">>
                     [] host = "DetailPage"      -> <<"audit", auditId>>
                     [] OTHER                    -> <<>>
    /\ confirmedVia = "none"
    \* ApiService: no call made yet
    /\ apiEndpoint = Null /\ apiResponse = Null /\ apiOutcome = Null

Next ==
    \/ \E p \in CallerQueries : SetParams(p)
    \/ Refetch
    \/ \E r \in auditsInflight, ok \in BOOLEAN, msg \in Reasons : AuditsSettled(r, ok, msg)
    \/ FilterBarMounted
    \/ \E text \in Texts : TypeSearch(text)
    \/ Tick
    \/ \E val \in SortOptions : handleSortChange(val)
    \/ PreviousPage
    \/ NextPage
    \/ \E r \in summaryInflight, ok \in BOOLEAN, msg \in Reasons : SummarySettled(r, ok, msg)
    \/ \E id \in RouteIds : ChangeAuditId(id)
    \/ \E r \in detailInflight, ok \in BOOLEAN, msg \in Reasons : DetailSettled(r, ok, msg)
    \/ Unmount
    \/ SelectQuickSelect
    \/ SelectManual
    \/ \E id \in catalogInflight, ok \in BOOLEAN, list \in Catalogs, msg \in Reasons :
          CatalogSettled(id, ok, list, msg)
    \/ \E strategy \in Range(strategies) : handleStrategySelect(strategy)
    \/ \E asset \in {"AAPL", "MSFT", "SPY"} : handleAssetSelect(asset)
    \/ SkipAsset
    \/ handleBack
    \/ handleSubmit
    \/ \E s \in submissions, ok \in BOOLEAN, msg \in SubmitReasons :
          \E strategyData \in FullRecords(s.name) : TemplateSettled(s, ok, strategyData, msg)
    \/ \E s \in submissions, ok \in BOOLEAN, audit_id \in AuditIds,
          msg \in SubmitReasons : SubmitSettled(s, ok, audit_id, msg)
    \/ NavigateDue
    \/ Cancel
    \/ \E shape \in ParamShapes : getAuditsList(shape)
    \/ \E call \in OtherOperations : CallOperation(call)
    \/ \E ok \in BOOLEAN, body \in Bodies : Respond(ok, body)

Spec == Init /\ [][Next]_vars

----------------------------------------------------------------------------
(* Properties *)

UsesAudits == host \in {"DashboardPage", "useAudits"}

\* Call r is pending before the step and not after it: it settles in the step.
Gone(r, inflightNext) == \A x \in inflightNext : x.id # r.id

\* What a settled call r leaves in a loader's (data, error) when it is applied.
Applied(r, dataWas, dataNext, errorNext) ==
    \/ dataNext # Null /\ dataNext[1].req = r.id /\ errorNext = Null
    \/ errorNext # Null /\ errorNext[1].req = r.id /\ dataNext = dataWas

\* C1: collection loader staleness. When an effect-issued request that a later
\* query change has superseded settles, data, error and loading do not change;
\* when the request of the query now in force settles (host mounted), loading
\* becomes false and data/error take that request's outcome. So on the
\* dashboard, once nothing is pending, the state is the last query's outcome.
StaleQueryResponseDiscarded ==
    /\ [][\A r \in auditsInflight :
            (Gone(r, auditsInflight') /\ r.origin = "effect") =>
               IF r.id = auditsEffectId /\ mounted
                 THEN /\ auditsLoading' = FALSE
                      /\ Applied(r, auditsData, auditsData', auditsError')
                 ELSE UNCHANGED auditsState]_vars
    /\ [](host = "DashboardPage" /\ mounted /\ auditsInflight = {} =>
            /\ ~auditsLoading
            /\ \/ auditsError = Null /\ auditsData # Null
                  /\ auditsData[1].req = auditsEffectId
               \/ auditsError # Null /\ auditsError[1].req = auditsEffectId)

\* C1 witness: the later query's page is loaded while the earlier query's
\* request is still pending (the later response arrived first).
LaterQueryLoadedFirst ==
    /\ UsesAudits /\ mounted
    /\ auditsData # Null /\ auditsData[1].req = auditsEffectId /\ ~auditsLoading
    /\ \E r \in auditsInflight : r.origin = "effect" /\ r.id < auditsEffectId

\* C2: cancellation of effect-issued requests. After the host is unmounted, the
\* settling (success or failure) of a request issued by a loader's effect
\* changes none of data, error, loading, for the collection, summary and detail
\* loaders.
NoEffectWriteAfterUnmount ==
    [][~mounted =>
         /\ \A r \in auditsInflight :
               (Gone(r, auditsInflight') /\ r.origin = "effect") =>
                   UNCHANGED auditsState
         /\ \A r \in summaryInflight :
               Gone(r, summaryInflight') => UNCHANGED summaryState
         /\ \A r \in detailInflight :
               Gone(r, detailInflight') => UNCHANGED detailState]_vars

\* C2 witness: the dashboard was unmounted with both its requests pending and
\* both have since settled; the loaders still show their pre-unmount state.
SettledAfterUnmount ==
    /\ host = "DashboardPage" /\ ~mounted
    /\ auditsInflight = {} /\ summaryInflight = {}
    /\ auditsLoading /\ summaryLoading

\* C3: last-issued-wins including refetch(). Once every request of a mounted
\* collection loader has settled, its data and error are those of the most
\* recently issued request (query change or refetch()).
LastIssuedWins ==
    (UsesAudits /\ mounted /\ auditsInflight = {}) =>
        \/ auditsError = Null /\ auditsData # Null /\ auditsData[1].req = nextId - 1
        \/ auditsError # Null /\ auditsError[1].req = nextId - 1

\* C4: teardown contract for refetch(). After the consumer unmounts, no
\* response changes the collection loader's data, error or loading.
NoAuditsWriteAfterUnmount ==
    [][~mounted => UNCHANGED auditsState]_vars

\* C5: LoadState shape. In the collection loader and in the detail loader,
\* data and error are never both non-null.
NeverDataAndError ==
    /\ ~(auditsData # Null /\ auditsError # Null)
    /\ ~(detailData # Null /\ detailError # Null)

\* C6: detail loader staleness. When the request of an identifier that has
\* since been replaced settles, data, error and loading do not change; when
\* the request of the identifier now in force settles (host mounted), loading
\* becomes false and data/error take that request's outcome, so once nothing
\* is pending the state is the outcome of the current identifier's request.
StaleDetailResponseDiscarded ==
    /\ [][\A r \in detailInflight :
            Gone(r, detailInflight') =>
               IF r.id = detailEffectId /\ mounted
                 THEN /\ detailLoading' = FALSE
                      /\ Applied(r, detailData, detailData', detailError')
                      /\ detailData' # detailData => detailData'[1].audit_id = auditId
                 ELSE UNCHANGED detailState]_vars
    /\ [](host = "DetailPage" /\ mounted /\ ~Falsy(auditId) /\ detailInflight = {} =>
            /\ ~detailLoading
            /\ \/ detailError = Null /\ detailData # Null
                  /\ detailData[1].req = detailEffectId
                  /\ detailData[1].audit_id = auditId
               \/ detailError # Null /\ detailError[1].req = detailEffectId)

\* C6 witness: the identifier went from A to B while A's request was pending;
\* B's record is loaded and A's request has not settled yet.
DetailBLoadedWhileAPending ==
    /\ host = "DetailPage" /\ mounted /\ auditId = "B"
    /\ detailData # Null /\ detailData[1].audit_id = "B" /\ ~detailLoading
    /\ \E r \in detailInflight : r.params = "A" /\ r.id < detailEffectId

\* C7: with an empty or absent identifier the detail loader has no request in
\* force and is in the terminal non-loading state: loading false, no data, no
\* error.
FalsyIdIsIdle ==
    (host = "DetailPage" /\ mounted /\ Falsy(auditId)) =>
        /\ detailEffectId = 0
        /\ \A r \in detailInflight : ~r.mounted
        /\ ~detailLoading /\ detailData = Null /\ detailError = Null

\* C8: page reset. A step that changes the filter text of the CollectionQuery
\* leaves page = 1 and page_size and the sort fields as they were; a step that
\* changes the sort leaves page = 1 and page_size and the filter text as they
\* were.
PageResetOnFilterOrSort ==
    [][host = "DashboardPage" =>
         /\ filterParams'.strategy_name # filterParams.strategy_name =>
               /\ filterParams'.page = 1
               /\ filterParams'.page_size = filterParams.page_size
               /\ filterParams'.sort_by = filterParams.sort_by
               /\ filterParams'.sort_order = filterParams.sort_order
         /\ <<filterParams'.sort_by, filterParams'.sort_order>> #
                <<filterParams.sort_by, filterParams.sort_order>> =>
               /\ filterParams'.page = 1
               /\ filterParams'.page_size = filterParams.page_size
               /\ filterParams'.strategy_name = filterParams.strategy_name]_vars

\* C8 witness: page 2 is on display and the query, after a filter or sort
\* change, asks for page 1 of another result set.
ResetFromSecondPage ==
    /\ host = "DashboardPage" /\ mounted
    /\ auditsData # Null /\ auditsData[1].page = 2
    /\ filterParams.page = 1
    /\ filterParams # InitialFilterParams
    /\ \E r \in auditsInflight : r.mounted /\ r.params = filterParams

\* C9: debounced filter. The filter text of the CollectionQuery changes, and a
\* request with a new filter text is issued, only in a step at which the
\* search text has been unchanged for the whole debounce delay; the text it
\* takes is the current search text, and one request is issued for it.
FilterOnlyAfterQuiescence ==
    [][host = "DashboardPage" =>
         /\ filterParams'.strategy_name # filterParams.strategy_name =>
               /\ idle + Quantum >= DebounceDelay
               /\ searchTerm' = searchTerm
               /\ filterParams'.strategy_name = searchTerm
               /\ Cardinality({r \in auditsInflight' : r.id >= nextId}) = 1
         /\ \A r \in auditsInflight' :
               r.id >= nextId =>
                   r.params.strategy_name = filterParams'.strategy_name]_vars

\* C9 witness: "mean" reached the query after its quiet period; "me", typed
\* 200 ms ago, has reached neither the query nor any request.
KeystrokeHeldBack ==
    /\ host = "DashboardPage" /\ mounted
    /\ filterParams.strategy_name = "mean"
    /\ searchTerm = "me" /\ idle = 2 * Quantum /\ timer = DebounceDelay - 2 * Quantum
    /\ \E r \in auditsInflight : r.params.strategy_name = "mean"
    /\ \A r \in auditsInflight : r.params.strategy_name # "me"

\* C10: catalog entry. Every selection of quick-select mode in ChoosingMode
\* (step = mode, no mode chosen) issues a catalog fetch, and a catalog fetch
\* that settles puts the wizard in SelectingTemplate unless it failed (then
\* ChoosingMode with the error).
CatalogFetchedOnEveryEntry ==
    [][/\ (host = "SubmitAuditPage" /\ mounted /\ step = "mode" /\ mode = NoMode
             /\ mode' = "quick-select")
          => \E id \in catalogInflight' : id \notin catalogInflight
       /\ (\E id \in catalogInflight : id \notin catalogInflight')
          => \/ step' = "strategy"
             \/ step' = "mode" /\ mode' = NoMode /\ error' # Null]_vars

\* A getStrategies call settles in this step.
CatalogFetchSettles == \E id \in catalogInflight : id \notin catalogInflight'

\* C11: catalog fetch failure. A catalog fetch that settles with a failure (a
\* fetch that succeeds shows the strategy step) leaves the wizard in
\* ChoosingMode (step = mode, no mode chosen) with the failure's reason as the
\* error and no partial state: no template selected, no qualifier selected,
\* the catalog unchanged.
CatalogFailureLeavesNoPartialState ==
    [][(CatalogFetchSettles /\ step' # "strategy")
          => /\ step' = "mode" /\ mode' = NoMode
             /\ \E r \in Reasons : error' = Some(r)
             /\ selectedStrategy' = Null /\ selectedAsset' = ""
             /\ strategies' = strategies]_vars

\* C12: manual entry. A step that surfaces the 'not implemented' error issues
\* no request and leaves the wizard in ChoosingMode with no mode, no template
\* and no qualifier; and the wizard, in ChoosingMode with no mode chosen after
\* that error, does not leave ChoosingMode (a mode must be selected first),
\* whether or not a catalog fetch is pending.
ManualEntryStaysInChoosingMode ==
    [][/\ (error' = Some(ManualNotImplemented) /\ error # Some(ManualNotImplemented))
          => /\ nextId' = nextId /\ catalogInflight' = catalogInflight
             /\ step' = "mode" /\ mode' = NoMode
             /\ selectedStrategy' = Null /\ selectedAsset' = ""
       /\ (step = "mode" /\ mode = NoMode /\ error = Some(ManualNotImplemented))
          => step' = "mode"]_vars

\* The wizard's steps in forward order.
StepIndex(s) ==
    CASE s = "mode" -> 1 [] s = "strategy" -> 2 [] s = "asset" -> 3 [] s = "confirm" -> 4

\* The step moves backward in this step other than by a catalog fetch
\* settling: the Back button was pressed.
WentBack == StepIndex(step') < StepIndex(step) /\ catalogInflight' = catalogInflight

QualifierAbsentWhenSkipped ==
    /\ (step = "confirm" /\ confirmedVia = "skip") => selectedAsset = ""
    /\ \A s \in submissions :
          s.via = "skip"
            => /\ s.asset = ""
               /\ s.body # Null => "selected_asset" \notin DOMAIN s.body[1]

\* A submit request is in flight for a confirmation reached by skipping.
SkippedSubmitRequestSent ==
    \E s \in submissions : s.phase = "submit" /\ s.via = "skip" /\ s.body # Null

\* C15: qualifier validity. In every request passed to the submit operation
\* the qualifier, if present, is one of the assets of the template record
\* that was re-fetched by name for that request, whatever the remote side
\* answered when the qualifier was picked and when the record was re-fetched.
QualifierInRefetchedTemplate ==
    \A s \in submissions :
        (s.body # Null /\ "selected_asset" \in DOMAIN s.body[1])
          => s.body[1]["selected_asset"] \in Range(s.body[1]["assets"])

\* A getStrategyByName call of a submit settles in this step.
TemplateFetchSettles(s) ==
    /\ s \in submissions /\ s.phase = "template"
    /\ \A x \in submissions' : x.id # s.id

\* C16: submit protocol. A submit request is issued only in the step in which
\* the template fetch of the same handleSubmit call succeeds, exactly one,
\* and its payload is the fetched record merged with the qualifier held when
\* submit was triggered (absent when empty); a template fetch that fails
\* issues no submit request and the wizard is Failed (error = the fetch's
\* reason, loading false).
SubmitOnlyAfterTemplateFetched ==
    [][/\ \A x \in submissions' :
             (x.phase = "submit" /\ x \notin submissions)
               => \E s \in submissions :
                     /\ TemplateFetchSettles(s)
                     /\ submissions' = (submissions \ {s}) \cup {x}
                     /\ x.name = s.name /\ x.asset = s.asset
                     /\ \E record \in FullRecords(s.name) :
                           x.body = Some(IF s.asset = ""
                                         THEN record
                                         ELSE [k \in DOMAIN record \cup {"selected_asset"} |->
                                                 IF k = "selected_asset" THEN s.asset
                                                 ELSE record[k]])
       /\ \A s \in submissions :
             (TemplateFetchSettles(s) /\ \A x \in submissions' : x.phase # "submit")
               => /\ \E r \in SubmitReasons : error' = Some(r)
                  /\ ~loading'
                  /\ submissions' = submissions \ {s}]_vars

\* The template fetch has succeeded and the one submit request is in flight.
SubmitRequestInFlight ==
    /\ loading
    /\ \E s \in submissions : s.phase = "submit" /\ s.body # Null /\ s.asset # ""

\* A submitAudit call settles in this step.
SubmitRequestSettles(s) ==
    /\ s \in submissions /\ s.phase = "submit"
    /\ \A x \in submissions' : x.id # s.id

\* C17: submit success. A submit request settles either as a failure or as a
\* success; the success records the returned identifier, clears
\* loading and sets the 1.5 s timeout for that identifier. A timeout is only
\* ever removed by running, and a detail view is only ever navigated to by
\* the oldest timeout running, to exactly its identifier.
SuccessThenNavigateToId ==
    [][/\ \A s \in submissions :
             SubmitRequestSettles(s)
               => \/ /\ \E r \in SubmitReasons : error' = Some(r)
                     /\ UNCHANGED <<success, navTimers>>
                  \/ \E id \in AuditIds :
                        /\ success' = Some(id)
                        /\ ~loading'
                        /\ navTimers' = Append(navTimers, [audit_id |-> id, delay |-> NavigateDelay])
                        /\ UNCHANGED <<error, location>>
       /\ (navTimers' # navTimers /\ Len(navTimers') <= Len(navTimers))
             => /\ navTimers' = Tail(navTimers)
                /\ location' = <<"audit", Head(navTimers).audit_id>>
       /\ (host = "SubmitAuditPage" /\ location' # location /\ location' # <<>>)
             => /\ navTimers # <<>>
                /\ location' = <<"audit", Head(navTimers).audit_id>>]_vars

\* Scenario A has run to its end: catalog {alpha, beta}, alpha picked, the
\* qualifier skipped, the submit succeeded with identifier A and the
\* navigation to /audit/A has happened.
ScenarioANavigated ==
    /\ strategies = <<Alpha, Beta>> /\ selectedStrategy = Some(Alpha)
    /\ selectedAsset = "" /\ confirmedVia = "skip"
    /\ success = Some("A") /\ ~loading /\ error = Null
    /\ navTimers = <<>> /\ location = <<"audit", "A">>

\* C18: failed submission. When a submit request settles as a failure (no
\* success is recorded), the error is a failure reason of the call, the
\* selected template and qualifier are as before, and the wizard is in the
\* confirm step with loading false, so that the Run Audit button is enabled
\* for a new attempt on the same selection.
FailureKeepsConfirming ==
    [][\A s \in submissions :
          (SubmitRequestSettles(s) /\ success' = Null)
            => /\ \E r \in SubmitReasons : error' = Some(r)
               /\ UNCHANGED <<selectedStrategy, selectedAsset>>
               /\ step' = "confirm" /\ selectedStrategy' # Null
               /\ ~loading']_vars

\* A handleSubmit call starts in this step.
SubmitStarts == \E x \in submissions' : x.phase = "template" /\ x \notin submissions

\* C19: single submission in flight. At most one handleSubmit call is in
\* flight (at its template re-fetch or at its submit request) and loading is
\* true while it is; no handleSubmit call starts while loading is true, also
\* when the user went back during the submission and returned to the confirm
\* step.
SingleSubmissionInFlight ==
    [][/\ Cardinality(submissions') <= 1
       /\ submissions' # {} => loading'
       /\ SubmitStarts => ~loading /\ submissions = {}]_vars

\* The user went back while the submission was in flight and has returned to
\* the confirm step, where the submission is still in flight.
BackInConfirmingWhileSubmitting ==
    /\ mounted /\ step = "confirm" /\ loading
    /\ \E s \in submissions : s.asset # selectedAsset

\* C20: outcome lifecycle. A starting handleSubmit call leaves both the
\* success value and the error cleared in the step that issues its first
\* request, and in no state are the success value and the error both set.
OutcomeEitherSuccessOrError ==
    [][/\ SubmitStarts => success' = Null /\ error' = Null
       /\ ~(success' # Null /\ error' # Null)]_vars

\* C25: at most one catalog fetch (getStrategies call) is in flight, whatever
\* sequence of mode selections is made while an earlier fetch is pending.
AtMostOneCatalogFetch == Cardinality(catalogInflight) <= 1

\* C24: step/selection consistency. (a) In the asset and confirm steps a
\* template is selected; (b) in the mode and strategy steps none is;
\* (c) a non-empty qualifier is held only in the confirm step, with a
\* selected template whose assets contain it.
StepSelectionConsistent ==
    /\ step \in {"asset", "confirm"} => selectedStrategy # Null
    /\ step \in {"mode", "strategy"} => selectedStrategy = Null
    /\ selectedAsset # ""
         => /\ step = "confirm"
            /\ selectedStrategy # Null
            /\ selectedAsset \in Range(selectedStrategy[1].assets)

\* C26: selections frozen during Submitting. While loading is true and the
\* submission's outcome has not arrived (loading stays true), the wizard is
\* and stays in the confirm step and the selected template and qualifier do
\* not change.
SelectionsFrozenWhileSubmitting ==
    [][(host = "SubmitAuditPage" /\ loading /\ loading')
          => /\ step = "confirm" /\ step' = "confirm"
             /\ UNCHANGED <<selectedStrategy, selectedAsset>>]_vars

\* C27: no navigation after leaving. Once the router has left /submit (by
\* Cancel, by a header link, or by the wizard's own navigation to a detail
\* view), the wizard instance triggers no further navigation; so it navigates
\* to a detail view at most once and never after the user has left.
NoNavigationAfterLeaving ==
    [][(host = "SubmitAuditPage" /\ location # <<"submit">>)
          => location' = location]_vars

\* C28: loading flag accuracy. In a mounted collection loader, loading is
\* true while the most recently issued request (by a query change or by
\* refetch()) is unresolved, and loading becomes false only in the step in
\* which that request settles.
LoadingWhileLatestPending ==
    [][(UsesAudits /\ mounted')
          => /\ (\E r \in auditsInflight' : r.id = nextId' - 1) => auditsLoading'
             /\ (auditsLoading /\ ~auditsLoading')
                  => \E r \in auditsInflight :
                        r.id = nextId - 1 /\ Gone(r, auditsInflight')]_vars

\* C29: page number lower bound. On the dashboard the query's page is at
\* least 1 in every reachable state, and so is the page of every request
\* issued, after any sequence of Previous, Next, filter and sort actions and
\* responses.
PageAtLeastOne ==
    host = "DashboardPage"
      => /\ filterParams.page >= 1
         /\ \A r \in auditsInflight : r.params.page >= 1

\* The second page was displayed and the query is back on page 1, whose
\* request is pending: the state Previous leaves when pressed on page 2.
BackOnFirstPage ==
    /\ host = "DashboardPage" /\ mounted
    /\ auditsData # Null /\ auditsData[1].page = 2 /\ auditsLoading
    /\ filterParams = InitialFilterParams
    /\ \E r \in auditsInflight : r.id = auditsEffectId /\ r.params.page = 1

\* C30: no redundant fetch. A render that hands the collection loader a new
\* params object whose five fields equal the current ones issues no request
\* and changes nothing of the loader; in particular the filter callback fired
\* with the empty text when FilterBar mounts causes no second request.
NoRedundantFetch ==
    [][(UsesAudits /\ paramsObject' # paramsObject /\ filterParams' = filterParams)
          => UNCHANGED <<nextId, auditsVars>>]_vars

\* The dashboard has rendered the params object that FilterBar's mount-time
\* callback produced, and the initial request is still the only one issued.
MountCallbackRendered ==
    /\ host = "DashboardPage" /\ mounted
    /\ paramsObject = 1 /\ filterParams = InitialFilterParams
    /\ nextId = 2 /\ auditsEffectId = 1

\* C22: unknown identifier on the detail view. When the detail fetch of the
\* identifier in force fails (no record exists for it), the loader ends in
\* Failed, with loading false and data null, and the view is an error
\* message, neither the spinner nor a record's page.
UnknownIdEndsFailed ==
    [][\A r \in detailInflight :
          (host = "DetailPage" /\ mounted /\ r.id = detailEffectId
             /\ Gone(r, detailInflight') /\ detailError' # Null
             /\ detailError'[1].req = r.id)
            => /\ ~detailLoading'
               /\ detailData' = Null
               /\ DetailView'[1] = "ErrorMessage"]_vars

\* The text each sample value must appear as in the query string.
ExpectedText(key) ==
    CASE key = "page"          -> "2"
      [] key = "page_size"     -> "20"
      [] key = "strategy_name" -> ""
      [] key = "sort_by"       -> "edge_score"
      [] key = "sort_order"    -> "asc"

\* C23: collection query serialization. For every params object (each of the
\* five fields absent, undefined or defined), getAuditsList requests /audits
\* followed by '?' and key=value groups joined by '&', one group for each
\* field whose value is not undefined, each once, with the value as text, and
\* no group for any other field; with no such field it requests plain
\* /audits without '?'.
QueryHasExactlyDefinedFields ==
    (host = "ApiService" /\ apiEndpoint # Null /\ apiEndpoint[1].op = "getAuditsList")
      => LET params == apiEndpoint[1].params
             e == apiEndpoint[1].endpoint
             defined == {i \in 1..Len(params) : params[i][2].t # "undefined"}
             groups == {j \in 3..Len(e) : (j - 3) % 4 = 0}
         IN  /\ e[1] = "/audits"
             /\ defined = {} => e = <<"/audits">>
             /\ defined # {} => e[2] = "?" /\ Len(e) = 1 + 4 * Cardinality(defined)
             /\ \A i \in defined :
                   /\ Cardinality({j \in groups : e[j] = params[i][1]}) = 1
                   /\ \A j \in groups :
                         e[j] = params[i][1]
                           => e[j + 1] = "=" /\ e[j + 2] = ExpectedText(params[i][1])
             /\ \A j \in groups :
                   /\ \E i \in defined : e[j] = params[i][1]
                   /\ j + 3 <= Len(e) => e[j + 3] = "&"

\* A query with page and the empty strategy_name defined and sort_by present
\* but undefined has been serialized.
MixedQuerySerialized ==
    /\ host = "ApiService" /\ apiEndpoint # Null
    /\ apiEndpoint[1].op = "getAuditsList"
    /\ apiEndpoint[1].params =
          << <<"page", Number(2)>>, <<"strategy_name", Text("")>>, <<"sort_by", Undef>> >>
    /\ apiEndpoint[1].endpoint =
          <<"/audits", "?", "page", "=", "2", "&", "strategy_name", "=", "">>

\* C21: remote error normalization. For every operation and every response:
\* a non-success status makes the call fail with an Error whose reason is the
\* body's detail when the body parses and has a non-empty detail, and the
\* fallback 'An error occurred' when the body cannot be parsed or has no
\* detail; no other exception reaches the caller, and a success status never
\* yields an error.
RemoteErrorNormalized ==
    (host = "ApiService" /\ apiOutcome # Null)
      => LET ok == apiResponse[1].ok
             body == apiResponse[1].body
             outcome == apiOutcome[1]
             hasDetail == /\ body.parses /\ body.json.t = "object"
                          /\ body.json.detail \notin {Undefined, ""}
         IN  IF ok
               THEN ~outcome.thrown
               ELSE /\ outcome.thrown /\ outcome.class = "Error"
                    /\ outcome.message = IF hasDetail THEN body.json.detail
                                         ELSE "An error occurred"

====
